---- MODULE Spec2Model ----
(***************************************************************************)
(* git-hud: status collection (src/git.rs) and the summary fan-out of     *)
(* run (src/main.rs).                                                      *)
(*                                                                         *)
(* Text is a sequence of one-character strings.  The NUL byte of the       *)
(* status protocol is the symbol NUL.                                      *)
(***************************************************************************)
EXTENDS Integers, Sequences, FiniteSets, TLC

VARIABLES
    line,        \* the record handed to parse_status_line
    parsed,      \* its result
    api_key,     \* whether ANTHROPIC_API_KEY is set in the environment
    repo_ok,     \* whether the current directory opens as a repository
    st_exit,     \* exit status of `git status` (0 = success)
    st_out,      \* stdout of `git status --porcelain=v2 -z`
    fs,          \* the files of the working copy, by abs_path
    st_ret,      \* what get_status returned
    pc,          \* where run is
    br,          \* the futures of summary_futures, one per entry
    net,         \* per future, what the network has delivered and is unread
    cursor,      \* the future try_join_all polls next in this pass, 0: parked
    woken,       \* a waker of the join was invoked since the last pass began
    diff_calls,  \* per entry, the calls of get_diff
    diff_rets,   \* per entry, what its calls of get_diff returned
    sum_calls,   \* per entry, the calls of summarize
    completion,  \* the indices of the futures in the order they completed
    files,       \* files_with_summaries
    run_err,     \* the error run returned
    faults,      \* the calls of get_diff and summarize that returned an error
    calls,       \* calls of open_current_directory, get_status, display
    f_info,      \* the file handed to is_file_binary
    f_bin,       \* what is_file_binary returned
    d_idx,       \* the entry of the ChangeSet handed to get_diff, 0: none
    d_ans,       \* what the external diff command gave in that call
    d_ret        \* what get_diff returned

envVars == <<api_key, repo_ok, st_exit, st_out, fs>>
parseVars == <<line, parsed>>
joinVars == <<br, net, cursor, woken, diff_calls, diff_rets, sum_calls,
             completion>>
probeVars == <<f_info, f_bin>>
diffVars == <<d_idx, d_ans, d_ret>>

vars == <<line, parsed, api_key, repo_ok, st_exit, st_out, fs, st_ret, pc, br,
          net, cursor, woken, diff_calls, sum_calls, completion, files,
          run_err, faults, calls, diff_rets, f_info, f_bin, d_idx, d_ans,
          d_ret>>

----------------------------------------------------------------------------
(* Bounds *)

MaxPathLen == 3
MaxShortLen == 3
MaxChanges == 2
MaxEntries == 2
MaxTextLen == 3

----------------------------------------------------------------------------
(* Text helpers *)

SP == " "
NUL == "NUL"
SLASH == "/"

NoneV == <<"None">>
Some(x) == <<"Some", x>>

\* All sequences over S of length lo..hi
SeqsOf(S, lo, hi) == UNION {[1..n -> S] : n \in lo..hi}

\* index of the first c in s, 0 when there is none
RECURSIVE FirstIndex(_, _, _)
FirstIndex(s, c, i) ==
    IF i > Len(s) THEN 0
    ELSE IF s[i] = c THEN i
    ELSE FirstIndex(s, c, i + 1)

\* index of the last c in s, 0 when there is none
RECURSIVE LastIndex(_, _, _)
LastIndex(s, c, i) ==
    IF i < 1 THEN 0
    ELSE IF s[i] = c THEN i
    ELSE LastIndex(s, c, i - 1)

Tail_(s, i) == SubSeq(s, i, Len(s))

\* str::split(c): every piece, empty ones included
RECURSIVE split(_, _)
split(s, c) ==
    LET i == FirstIndex(s, c, 1)
    IN  IF i = 0 THEN <<s>>
        ELSE <<SubSeq(s, 1, i - 1)>> \o split(Tail_(s, i + 1), c)

\* str::splitn(n, c): at most n pieces, the last one is the remainder
RECURSIVE splitn(_, _, _)
splitn(n, c, s) ==
    LET i == FirstIndex(s, c, 1)
    IN  IF n <= 1 \/ i = 0 THEN <<s>>
        ELSE <<SubSeq(s, 1, i - 1)>> \o splitn(n - 1, c, Tail_(s, i + 1))

\* str::rsplitn(n, c): at most n pieces taken from the right
RECURSIVE rsplitn(_, _, _)
rsplitn(n, c, s) ==
    LET i == LastIndex(s, c, Len(s))
    IN  IF n <= 1 \/ i = 0 THEN <<s>>
        ELSE <<Tail_(s, i + 1)>> \o rsplitn(n - 1, c, SubSeq(s, 1, i - 1))

\* Iterator::next on the k-th item of an iterator
NextOf(it, k) == IF k <= Len(it) THEN Some(it[k]) ELSE NoneV

\* str::chars().nth(k), zero based
CharsNth(s, k) == IF k + 1 <= Len(s) THEN Some(s[k + 1]) ELSE NoneV

IsSome(o) == o[1] = "Some"
Unwrap(o) == o[2]

----------------------------------------------------------------------------
(* Paths *)

\* the current directory of the process; repo_root_path is "."
Cwd == <<"/", "w">>

\* PathBuf::join: an absolute argument replaces the base
PathJoin(base, p) ==
    IF Len(p) > 0 /\ p[1] = SLASH THEN p
    ELSE IF Len(base) > 0 /\ base[Len(base)] = SLASH THEN base \o p
    ELSE base \o <<SLASH>> \o p

\* std::path::absolute(repo_root_path.join(path)), repo_root_path = "."
AbsPath(p) == PathJoin(Cwd, p)

\* Path::file_name: the last component, empty and "." components skipped;
\* none when there is no component or the last one is ".."
RECURSIVE LastNormal(_, _)
LastNormal(parts, k) ==
    IF k < 1 THEN NoneV
    ELSE IF Len(parts[k]) = 0 \/ parts[k] = <<".">> THEN LastNormal(parts, k - 1)
    ELSE IF parts[k] = <<".", ".">> THEN NoneV
    ELSE Some(parts[k])

file_name(p) == LET parts == split(p, SLASH) IN LastNormal(parts, Len(parts))

----------------------------------------------------------------------------
(* StatusCode and StatusEntry *)

StatusCodes == {"Modified", "Added", "Deleted", "Renamed", "Copied",
                "Unmerged", "Untracked", "Ignored"}

\* StatusCode::from_str: NoneV stands for Err("Invalid status code")
from_str(s) ==
    CASE s = <<"M">> -> Some("Modified")
      [] s = <<"A">> -> Some("Added")
      [] s = <<"D">> -> Some("Deleted")
      [] s = <<"R">> -> Some("Renamed")
      [] s = <<"C">> -> Some("Copied")
      [] s = <<"U">> -> Some("Unmerged")
      [] s = <<"?">> -> Some("Untracked")
      [] s = <<"!">> -> Some("Ignored")
      [] OTHER -> NoneV

StatusEntry(abs, disp, status, staged, orig, bin) ==
    [abs_path |-> abs, display_path |-> disp, status |-> status,
     staged |-> staged, original_path |-> orig, is_binary |-> bin]

NoEntry == StatusEntry(<<>>, <<>>, "", FALSE, NoneV, FALSE)

\* Result<Option<StatusEntry>>, or the abort of the process by a panic
OkSome(e) == [tag |-> "Some", entry |-> e, msg |-> ""]
OkNone == [tag |-> "None", entry |-> NoEntry, msg |-> ""]
Err(m) == [tag |-> "Err", entry |-> NoEntry, msg |-> m]
Panic == [tag |-> "Panic", entry |-> NoEntry, msg |-> "unwrap on None"]
NotParsed == [tag |-> "NotRun", entry |-> NoEntry, msg |-> ""]

----------------------------------------------------------------------------
(* Repository::parse_status_line *)

\* mutant: every space splits, the path too
OrdinaryFields_SplitAll(remainder) == split(remainder, SP)

\* remainder.splitn(8, ' '): xy, 6 skipped fields, the path
OrdinaryFields(remainder) == splitn(8, SP, remainder)

\* mutant: staged read from Y
StagedOf_FromY(xy) ==
    LET y == CharsNth(xy, 1)
    IN  IF IsSome(y) THEN Unwrap(y) # "." ELSE FALSE

\* xy.chars().nth(0).map(|c| c != '.').unwrap_or(false)
StagedOf(xy) ==
    LET x == CharsNth(xy, 0)
    IN  IF IsSome(x) THEN Unwrap(x) # "." ELSE FALSE

\* mutant: X, or Y when X is '.'
EffectiveCode_XFirst(xy) ==
    LET x == CharsNth(xy, 0)
        y == CharsNth(xy, 1)
    IN  IF ~IsSome(y) THEN NoneV
        ELSE IF Unwrap(x) = "." THEN Some(<<Unwrap(y)>>)
        ELSE Some(<<Unwrap(x)>>)

\* the letter handed to StatusCode::from_str: Y, or X when Y is '.';
\* NoneV when xy has no second character
EffectiveCode(xy) ==
    LET y == CharsNth(xy, 1)
    IN  IF ~IsSome(y) THEN NoneV
        ELSE IF Unwrap(y) = "." THEN Some(<<Unwrap(CharsNth(xy, 0))>>)
        ELSE Some(<<Unwrap(y)>>)

\* the "1" | "2" arm
ParseOrdinary(parts) ==
    LET remainderO == NextOf(parts, 2)
    IN  IF ~IsSome(remainderO) THEN Err("Missing entry data")
        ELSE
        LET fields == OrdinaryFields(Unwrap(remainderO))
            xyO == NextOf(fields, 1)
            pathO == NextOf(fields, 8)
        IN  IF ~IsSome(xyO) THEN Err("Missing XY field")
            ELSE IF ~IsSome(pathO) THEN Err("Missing path")
            ELSE
            LET xy == Unwrap(xyO)
                path == Unwrap(pathO)
                staged == StagedOf(xy)
                status == EffectiveCode(xy)
            IN  IF ~IsSome(status) THEN Err("Invalid status code format")
                ELSE
                LET code == from_str(Unwrap(status))
                IN  IF ~IsSome(code) THEN Err("Invalid status code")
                    ELSE OkSome(StatusEntry(AbsPath(path), path,
                                            Unwrap(code), staged, NoneV,
                                            FALSE))

\* the "R" | "C" arm
ParseRenameCopy(entry_type, parts) ==
    LET remainderO == NextOf(parts, 2)
    IN  IF ~IsSome(remainderO) THEN Err("Missing rename/copy data")
        ELSE
        LET rparts == rsplitn(2, SP, Unwrap(remainderO))
            newO == NextOf(rparts, 1)
            originalO == NextOf(rparts, 2)
        IN  IF ~IsSome(newO) \/ ~IsSome(originalO) THEN Panic
            ELSE OkSome(StatusEntry(AbsPath(Unwrap(newO)), Unwrap(newO),
                                    IF entry_type = <<"R">> THEN "Renamed"
                                    ELSE "Copied",
                                    TRUE, Some(Unwrap(originalO)), FALSE))

\* the "u" and "?" arms
ParsePathOnly(parts, status, missing) ==
    LET pathO == NextOf(parts, 2)
    IN  IF ~IsSome(pathO) THEN Err(missing)
        ELSE OkSome(StatusEntry(AbsPath(Unwrap(pathO)), Unwrap(pathO),
                                status, FALSE, NoneV, FALSE))

parse_status_line(l) ==
    IF Len(l) = 0 THEN OkNone
    ELSE
    LET parts == splitn(2, SP, l)
        entry_type == parts[1]
    IN  CASE entry_type \in {<<"1">>, <<"2">>} -> ParseOrdinary(parts)
          [] entry_type \in {<<"R">>, <<"C">>} ->
                ParseRenameCopy(entry_type, parts)
          [] entry_type = <<"u">> ->
                ParsePathOnly(parts, "Unmerged",
                              "Missing path in unmerged entry")
          [] entry_type = <<"?">> ->
                ParsePathOnly(parts, "Untracked",
                              "Missing path in untracked entry")
          [] entry_type = <<"!">> -> OkNone
          [] OTHER -> OkNone

----------------------------------------------------------------------------
(* Repository::is_file_binary *)

\* bytes of a file or of a command's output that are not text
BAD == "\\xFF"
LF == "\n"

\* String::from_utf8: a NUL byte is valid UTF-8, BAD is not
Utf8Valid(s) == \A i \in 1..Len(s) : s[i] # BAD

\* what the working copy holds at a path: whether it exists, what the
\* `file -bL --mime` probe prints about it (charset=binary, inode/x-empty)
\* when it can be started, whether the file can be opened and read, and its
\* bytes
FileInfo(exists, probe_binary, probe_empty, readable, text) ==
    [exists |-> exists, probe_ran |-> TRUE, probe_binary |-> probe_binary,
     probe_empty |-> probe_empty, readable |-> readable, text |-> text]

\* the `file` command cannot be started
NoProbe(info) == [info EXCEPT !.probe_ran = FALSE]

MissingFile == FileInfo(FALSE, FALSE, FALSE, FALSE, <<>>)
TextFile == FileInfo(TRUE, FALSE, FALSE, TRUE, <<"x", LF, "y", LF>>)
BinaryFile == FileInfo(TRUE, TRUE, FALSE, TRUE, <<BAD, "x">>)
EmptyFile == FileInfo(TRUE, TRUE, TRUE, TRUE, <<>>)
UnreadableFile == FileInfo(TRUE, FALSE, FALSE, FALSE, <<"x">>)

Lookup(f, abs) == IF abs \in DOMAIN f THEN f[abs] ELSE MissingFile

\* Result<bool>: <<"Ok", b>> or <<"Err">>
is_file_binary(info) ==
    IF ~info.exists THEN <<"Ok", FALSE>>
    ELSE IF ~info.probe_ran THEN <<"Err">>
    ELSE IF info.probe_binary /\ ~info.probe_empty THEN <<"Ok", TRUE>>
    ELSE IF ~info.readable THEN <<"Err">>
    ELSE IF Len(info.text) = 0 THEN <<"Ok", FALSE>>
    ELSE <<"Ok", ~Utf8Valid(info.text)>>

----------------------------------------------------------------------------
(* Repository::get_status *)

StatusRet(tag, entries, probed, msg) ==
    [tag |-> tag, entries |-> entries, probed |-> probed, msg |-> msg]

NotReturned == StatusRet("NotRun", <<>>, <<>>, "")

RECURSIVE StatusLoop(_, _, _, _)

\* mutant: every record is probed
NeedsProbe_Always(entry) == TRUE

\* !matches!(entry.status, StatusCode::Deleted)
NeedsProbe(entry) == entry.status # "Deleted"

\* what `?` does with a failed parse: the error leaves get_status
OnParseError(rest, entries, probed, f) ==
    StatusRet("Err", <<>>, probed, "Failed to parse status line")

\* the loop over output.split('\0'); probed lists the paths handed to
\* is_file_binary
StatusLoop(frags, entries, probed, f) ==
    IF Len(frags) = 0 THEN StatusRet("Ok", entries, probed, "")
    ELSE
    LET l == Head(frags)
        rest == Tail(frags)
    IN  IF Len(l) = 0 THEN StatusLoop(rest, entries, probed, f)
        ELSE
        LET r == parse_status_line(l)
        IN  CASE r.tag = "Panic" -> StatusRet("Panic", <<>>, probed, r.msg)
              [] r.tag = "Err" -> OnParseError(rest, entries, probed, f)
              [] r.tag = "None" -> StatusLoop(rest, entries, probed, f)
              [] OTHER ->
                 IF NeedsProbe(r.entry)
                 THEN LET b == is_file_binary(Lookup(f, r.entry.abs_path))
                          probed2 == Append(probed, r.entry.abs_path)
                      IN  IF b[1] = "Err"
                          THEN StatusRet("Err", <<>>, probed2,
                                         "is_file_binary failed")
                          ELSE StatusLoop(rest,
                                 Append(entries,
                                        [r.entry EXCEPT !.is_binary = b[2]]),
                                 probed2, f)
                 ELSE StatusLoop(rest,
                        Append(entries, [r.entry EXCEPT !.is_binary = FALSE]),
                        probed, f)

get_status(exit, out, f) ==
    IF exit # 0 THEN StatusRet("Err", <<>>, <<>>, "git status failed")
    ELSE IF ~Utf8Valid(out)
    THEN StatusRet("Err", <<>>, <<>>, "Git status output was not valid UTF-8")
    ELSE StatusLoop(split(out, NUL), <<>>, <<>>, f)

----------------------------------------------------------------------------
(* Records handed to parse_status_line *)

\* the 6 placeholder fields of an ordinary record: sub mH mI mW hH hI
Meta6 == <<"N", SP, "6", SP, "6", SP, "6", SP, "h", SP, "h">>

\* the 8 placeholder fields of an unmerged record: sub m1 m2 m3 mW h1 h2 h3
Meta8 == <<"N", SP, "6", SP, "6", SP, "6", SP, "6", SP, "h", SP, "h", SP, "h">>

PathChars == {"a", SP, SLASH}

\* repository-relative paths: no leading slash, no empty component
Paths ==
    {p \in SeqsOf(PathChars, 1, MaxPathLen) :
        /\ p[1] # SLASH
        /\ \A i \in 1..(Len(p) - 1) : ~(p[i] = SLASH /\ p[i + 1] = SLASH)}

NoSpacePaths == {p \in Paths : \A i \in 1..Len(p) : p[i] # SP}

XYChars == {".", "M", "A", "D", "R", "C", "U", "?", "!", "T"}

XYCodes == {<<x, y>> : x \in XYChars, y \in XYChars}

OrdinaryLine(t, xy, p) == <<t, SP>> \o xy \o <<SP>> \o Meta6 \o <<SP>> \o p

OrdinaryLines ==
    {OrdinaryLine(t, xy, p) : t \in {"1", "2"}, xy \in XYCodes, p \in Paths}

Score == <<"1", "0", "0">>

RenameLine(t, old, new) == <<t, SP>> \o Score \o <<SP>> \o old \o <<SP>> \o new

RenameLines ==
    {RenameLine(t, old, new) :
        t \in {"R", "C"}, old \in NoSpacePaths, new \in NoSpacePaths}

PathLine(t, p) == <<t, SP>> \o p

PathLines == {PathLine(t, p) : t \in {"u", "?", "!"}, p \in Paths}

ShortChars == {"1", "R", "u", "?", "!", SP, "M", "."}

\* every record of up to MaxShortLen characters, truncated ones included
ShortLines == SeqsOf(ShortChars, 0, MaxShortLen)

\* the records of tests::test_parse_status_line
TestLineModified ==
    <<"1", " ", ".", "M", " ", "N", ".", ".", ".", " ", "1", "0", "0", "6",
      "4", "4", " ", "1", "0", "0", "6", "4", "4", " ", "1", "0", "0", "6",
      "4", "4", " ", "f", "i", "l", "e", ".", "t", "x", "t">>
TestLineAdded ==
    <<"1", " ", "A", ".", " ", "N", ".", ".", ".", " ", "1", "0", "0", "6",
      "4", "4", " ", "1", "0", "0", "6", "4", "4", " ", "1", "0", "0", "6",
      "4", "4", " ", "n", "e", "w", ".", "t", "x", "t">>
TestLineRenamed ==
    <<"R", " ", "1", "0", "0", " ", "o", "l", "d", ".", "t", "x", "t", " ",
      "n", "e", "w", ".", "t", "x", "t">>
TestLineUntracked ==
    <<"?", " ", "u", "n", "t", "r", "a", "c", "k", "e", "d", ".", "t", "x",
      "t">>

\* the same ordinary records with all 6 placeholder fields of porcelain v2
FullLineModified ==
    <<"1", " ", ".", "M", " ", "N", ".", ".", ".", " ", "1", "0", "0", "6",
      "4", "4", " ", "1", "0", "0", "6", "4", "4", " ", "1", "0", "0", "6",
      "4", "4", " ", "a", "b", "c", " ", "d", "e", "f", " ", "f", "i", "l",
      "e", ".", "t", "x", "t">>
FullLineAdded ==
    <<"1", " ", "A", ".", " ", "N", ".", ".", ".", " ", "0", "0", "0", "0",
      "0", "0", " ", "1", "0", "0", "6", "4", "4", " ", "1", "0", "0", "6",
      "4", "4", " ", "a", "b", "c", " ", "d", "e", "f", " ", "n", "e", "w",
      ".", "t", "x", "t">>
FileTxt ==
    <<"f", "i", "l", "e", ".", "t", "x", "t">>
NewTxt ==
    <<"n", "e", "w", ".", "t", "x", "t">>
OldTxt ==
    <<"o", "l", "d", ".", "t", "x", "t">>

TestLines ==
    {TestLineModified, TestLineAdded, TestLineRenamed, TestLineUntracked,
     FullLineModified, FullLineAdded}

Lines == OrdinaryLines \cup RenameLines \cup PathLines \cup ShortLines
         \cup TestLines

----------------------------------------------------------------------------
(* Output of `git status --porcelain=v2 -z`: one change per path, every   *)
(* record NUL-terminated, the original path of a "2" record in a fragment *)
(* of its own                                                             *)

Change(kind, xy, path, orig) ==
    [kind |-> kind, xy |-> xy, path |-> path, orig |-> orig]

Emit(c) ==
    CASE c.kind = "1" -> OrdinaryLine("1", c.xy, c.path) \o <<NUL>>
      [] c.kind = "2" ->
            OrdinaryLine("2", c.xy, <<"R", "9", SP>> \o c.path) \o <<NUL>>
            \o c.orig \o <<NUL>>
      [] c.kind = "u" ->
            <<"u", SP>> \o c.xy \o <<SP>> \o Meta8 \o <<SP>> \o c.path
            \o <<NUL>>
      [] OTHER -> PathLine(c.kind, c.path) \o <<NUL>>

PathsOf(c) == IF c.kind = "2" THEN {c.path, c.orig} ELSE {c.path}

RECURSIVE EmitAll(_)
EmitAll(cs) == IF Len(cs) = 0 THEN <<>> ELSE Emit(Head(cs)) \o EmitAll(Tail(cs))

\* git reports every path once
DistinctPaths(cs) ==
    \A i \in 1..Len(cs) : \A j \in 1..Len(cs) :
        i # j => PathsOf(cs[i]) \cap PathsOf(cs[j]) = {}

StPaths == {<<"a">>, <<"a", SP, "b">>, <<"?", SP, "a">>, <<"R", SP, "a">>}

StXY == {<<".", "M">>, <<"A", ".">>, <<"D", ".">>, <<".", "!">>, <<".", "T">>}

StChanges ==
    {Change("1", xy, p, <<>>) : xy \in StXY, p \in StPaths}
    \cup {c \in {Change("2", <<"R", ".">>, p, o) : p \in StPaths, o \in StPaths} :
            c.path # c.orig}
    \cup {Change("u", <<"U", "U">>, p, <<>>) : p \in StPaths}
    \cup {Change(k, <<>>, p, <<>>) : k \in {"?", "!"}, p \in StPaths}

StOutputs ==
    {EmitAll(cs) : cs \in {x \in SeqsOf(StChanges, 0, MaxChanges) :
                              DistinctPaths(x)}}
    \cup {<<BAD, NUL>>}

StFiles == {TextFile, BinaryFile, EmptyFile, UnreadableFile, MissingFile}

\* working copies: a file of the same sort at every reported path
FileSystems == {[p \in {AbsPath(q) : q \in StPaths} |-> k] : k \in StFiles}

----------------------------------------------------------------------------
(* Repository::get_diff *)

DeletedSentinel ==
    <<"T", "h", "i", "s", " ", "f", "i", "l", "e", " ", "w", "a", "s", " ",
      "d", "e", "l", "e", "t", "e", "d">>

CR == "\r"

\* a line without the carriage return that ends it
StripCR(l) ==
    IF Len(l) > 0 /\ l[Len(l)] = CR THEN SubSeq(l, 1, Len(l) - 1) ELSE l

\* str::lines: the pieces between line feeds, no empty piece after the last;
\* a piece that a line feed ends loses a carriage return before it
str_lines(t) ==
    IF Len(t) = 0 THEN <<>>
    ELSE LET ps == split(t, LF)
             n == Len(ps)
             ended == [i \in 1..(n - 1) |-> StripCR(ps[i])]
         IN  IF Len(ps[n]) = 0 THEN ended ELSE Append(ended, ps[n])

\* [&str]::join(sep)
RECURSIVE join(_, _)
join(ps, sep) ==
    IF Len(ps) = 0 THEN <<>>
    ELSE IF Len(ps) = 1 THEN ps[1]
    ELSE ps[1] \o sep \o join(Tail(ps), sep)

\* what running `git diff ...` gives: whether the process could be started,
\* its exit status and its stdout
DiffAnswer(spawned, exit, out) == [spawned |-> spawned, exit |-> exit, out |-> out]

DiffAnswers ==
    {DiffAnswer(FALSE, 0, <<>>), DiffAnswer(TRUE, 0, <<>>),
     DiffAnswer(TRUE, 0, <<"d">>), DiffAnswer(TRUE, 0, <<BAD>>),
     DiffAnswer(TRUE, 1, <<>>)}

\* Result<Option<String>>; invoked: an external command was run; read: the
\* file was read
DiffRet(tag, diff, invoked) ==
    [tag |-> tag, diff |-> diff, invoked |-> invoked, read |-> FALSE]

DiffRetRead(tag, diff) == [DiffRet(tag, diff, FALSE) EXCEPT !.read = TRUE]

\* a non-zero exit in the Renamed/Copied and Unmerged arms
DiffFallback(ans) == DiffRet("None", <<>>, TRUE)

\* a non-zero exit in the default arm
DiffDefaultFailure(ans) == DiffRet("Err", <<>>, TRUE)

\* String::from_utf8(output.stdout).map(Some)
DiffStdout(ans) ==
    IF Utf8Valid(ans.out) THEN DiffRet("Some", ans.out, TRUE)
    ELSE DiffRet("Err", <<>>, TRUE)

\* mutant: the content before the deletion, from `git show HEAD:<path>`
DiffDeleted_GitShow(ans) ==
    IF ans.spawned /\ ans.exit = 0 /\ Utf8Valid(ans.out)
    THEN DiffRet("Some", <<"-">> \o join(str_lines(ans.out), <<LF, "-">>), TRUE)
    ELSE DiffRet("None", <<>>, TRUE)

\* the Deleted arm: the fixed text, no command
DiffDeleted(ans) == DiffRet("Some", DeletedSentinel, FALSE)

\* mutant: binary entries are not skipped
SkipBinary_Never(entry) == FALSE

\* if entry.is_binary { return Ok(None); }
SkipBinary(entry) == entry.is_binary

get_diff(entry, info, ans) ==
    IF SkipBinary(entry) THEN DiffRet("None", <<>>, FALSE)
    ELSE
    CASE entry.status = "Untracked" ->
            IF ~info.exists \/ ~info.readable \/ ~Utf8Valid(info.text)
            THEN DiffRetRead("Err", <<>>)
            ELSE DiffRetRead("Some",
                   <<"+">> \o join(str_lines(info.text), <<LF, "+">>))
      [] entry.status = "Deleted" -> DiffDeleted(ans)
      [] entry.status \in {"Renamed", "Copied"} ->
            IF IsSome(entry.original_path)
            THEN IF ~ans.spawned THEN DiffRet("Err", <<>>, TRUE)
                 ELSE IF ans.exit = 0 THEN DiffStdout(ans)
                 ELSE DiffFallback(ans)
            ELSE DiffRet("None", <<>>, FALSE)
      [] entry.status = "Unmerged" ->
            IF ~ans.spawned THEN DiffRet("Err", <<>>, TRUE)
            ELSE IF ans.exit = 0 THEN DiffStdout(ans)
            ELSE DiffFallback(ans)
      [] OTHER ->
            IF ~ans.spawned THEN DiffRet("Err", <<>>, TRUE)
            ELSE IF ans.exit = 0 THEN DiffStdout(ans)
            ELSE DiffDefaultFailure(ans)

----------------------------------------------------------------------------
(* run: the steps before the fan-out *)

RunErr(stage, k) == [stage |-> stage, branch |-> k]
NoErr == RunErr("", 0)

NoCalls == [repo_opens |-> 0, status |-> 0, display |-> 0]

FileWithSummary(entry, summary) ==
    [path |-> entry.display_path, status |-> entry.status,
     staged |-> entry.staged, original_path |-> entry.original_path,
     summary |-> summary]

NoFile == FileWithSummary(NoEntry, NoneV)

Future(st, out) == [st |-> st, out |-> out]

Entries == st_ret.entries
NumEntries == Len(st_ret.entries)

\* mutant: the key is not looked at before the work starts
CheckApiKey_Unchecked ==
    /\ pc = "check_key"
    /\ pc' = "open_repo"
    /\ UNCHANGED <<envVars, probeVars, diffVars,
                   parseVars, joinVars, st_ret, files, run_err,
                   faults, calls>>

\* std::env::var(ANTHROPIC_API_KEY) ... ?
CheckApiKey ==
    /\ pc = "check_key"
    /\ IF api_key
       THEN pc' = "open_repo" /\ run_err' = run_err
       ELSE pc' = "exit_err" /\ run_err' = RunErr("config", 0)
    /\ UNCHANGED <<envVars, probeVars, diffVars,
                   parseVars, joinVars, st_ret, files, calls,
                   faults>>

\* git::Repository::open_current_directory(None)?
OpenRepo ==
    /\ pc = "open_repo"
    /\ calls' = [calls EXCEPT !.repo_opens = @ + 1]
    /\ IF repo_ok
       THEN pc' = "get_status" /\ run_err' = run_err
       ELSE pc' = "exit_err" /\ run_err' = RunErr("open", 0)
    /\ UNCHANGED <<envVars, probeVars, diffVars,
                   parseVars, joinVars, st_ret, files,
                   faults>>

\* repo.get_status()?
RunGetStatus ==
    /\ pc = "get_status"
    /\ calls' = [calls EXCEPT !.status = @ + 1]
    /\ st_ret' = get_status(st_exit, st_out, fs)
    /\ CASE st_ret'.tag = "Ok" -> pc' = "new_summarizer" /\ run_err' = run_err
         [] st_ret'.tag = "Err" ->
                pc' = "exit_err" /\ run_err' = RunErr("status", 0)
         [] OTHER -> pc' = "panicked" /\ run_err' = run_err
    /\ UNCHANGED <<envVars, probeVars, diffVars,
                   parseVars, joinVars, files,
                   faults>>

\* ClaudeSummarizer::new()?
NewSummarizer ==
    /\ pc = "new_summarizer"
    /\ IF api_key
       THEN pc' = "create_futures" /\ run_err' = run_err
       ELSE pc' = "exit_err" /\ run_err' = RunErr("summarizer", 0)
    /\ UNCHANGED <<envVars, probeVars, diffVars,
                   parseVars, joinVars, st_ret, files, calls,
                   faults>>

\* status.entries.iter().map(|entry| async {..}).collect(): nothing runs
\* until the join polls
CreateFutures ==
    /\ pc = "create_futures"
    /\ pc' = "join"
    /\ br' = [i \in 1..NumEntries |-> Future("created", NoFile)]
    /\ net' = [i \in 1..NumEntries |-> "none"]
    /\ diff_calls' = [i \in 1..NumEntries |-> 0]
    /\ diff_rets' = [i \in 1..NumEntries |-> <<>>]
    /\ sum_calls' = [i \in 1..NumEntries |-> 0]
    /\ cursor' = 1
    /\ UNCHANGED <<envVars, probeVars, diffVars,
                   parseVars, st_ret, woken, completion, files,
                   run_err, calls,
                   faults>>

----------------------------------------------------------------------------
(* run: try_join_all(summary_futures).await                                *)
(*                                                                         *)
(* try_join_all polls its futures in index order, keeps each output in the *)
(* slot of its future, ends with the first error a poll returns (dropping  *)
(* the futures that are left) and, when all are done, hands the outputs    *)
(* back in index order.  get_diff is a blocking call inside the poll of a  *)
(* future; summarize suspends the future until the network answers.        *)

Awaiting == {"send", "body", "errbody"}

Summary == <<"s">>

\* mutant: the outputs in the order the futures completed
JoinCollect_ByCompletion(futs, order) ==
    [i \in 1..Len(futs) |-> futs[order[i]].out]

\* the outputs try_join_all returns, from the slots of the futures
JoinCollect(futs, order) == [i \in 1..Len(futs) |-> futs[i].out]

\* mutant: the error is swallowed, the entry gets no summary
BranchFail_Swallow(k, stage) ==
    /\ br' = [br EXCEPT
                ![k] = Future("done", FileWithSummary(Entries[k], NoneV))]
    /\ completion' = Append(completion, k)
    /\ cursor' = k + 1
    /\ UNCHANGED <<pc, run_err>>

\* mutant: the failed branch is started again
BranchFail_Retry(k, stage) ==
    /\ br' = [br EXCEPT ![k] = Future("created", NoFile)]
    /\ cursor' = k
    /\ UNCHANGED <<pc, run_err, completion>>

\* `?` on a failed get_diff or summarize: the future ends with the error,
\* the join returns it and run returns it
BranchFail(k, stage) ==
    /\ br' = [br EXCEPT ![k] = Future("failed", NoFile)]
    /\ pc' = "exit_err"
    /\ run_err' = RunErr(stage, k)
    /\ cursor' = 0
    /\ completion' = completion

\* the future of entry k ends with Ok(FileWithSummary)
BranchDone(k, summary) ==
    /\ br' = [br EXCEPT
                ![k] = Future("done", FileWithSummary(Entries[k], summary))]
    /\ completion' = Append(completion, k)
    /\ cursor' = k + 1
    /\ UNCHANGED <<pc, run_err>>

\* first poll of a future: match entry.is_binary, then the call of get_diff
PollCreated ==
    /\ pc = "join"
    /\ cursor \in 1..NumEntries
    /\ br[cursor].st = "created"
    /\ IF Entries[cursor].is_binary
       THEN BranchDone(cursor, NoneV) /\ UNCHANGED diff_calls
       ELSE /\ br' = [br EXCEPT ![cursor].st = "diffing"]
            /\ diff_calls' = [diff_calls EXCEPT ![cursor] = @ + 1]
            /\ UNCHANGED <<pc, run_err, cursor, completion>>
    /\ UNCHANGED <<envVars, probeVars, diffVars, diff_rets,
                   parseVars, st_ret, net, woken, sum_calls, files,
                   calls,
                   faults>>

\* get_diff returns; Some(diff) goes to summarize, which sends the request
DiffReturn ==
    /\ pc = "join"
    /\ cursor \in 1..NumEntries
    /\ br[cursor].st = "diffing"
    /\ \E ans \in DiffAnswers :
         LET k == cursor
             d == get_diff(Entries[k], Lookup(fs, Entries[k].abs_path), ans)
         IN  /\ diff_rets' = [diff_rets EXCEPT ![k] = Append(@, d)]
             /\ CASE d.tag = "Err" ->
                    /\ faults' = faults \cup {<<k, "diff">>}
                    /\ BranchFail(k, "diff")
                    /\ UNCHANGED sum_calls
               [] d.tag = "None" ->
                    BranchDone(k, NoneV) /\ UNCHANGED <<sum_calls, faults>>
               [] OTHER ->
                    /\ br' = [br EXCEPT ![k].st = "send"]
                    /\ sum_calls' = [sum_calls EXCEPT ![k] = @ + 1]
                    /\ cursor' = k + 1
                    /\ UNCHANGED <<pc, run_err, completion, faults>>
    /\ UNCHANGED <<envVars, probeVars, diffVars,
                   parseVars, st_ret, net, woken, diff_calls, files,
                   calls>>

\* poll of a future that is done, or whose request has no answer yet
PollPending ==
    /\ pc = "join"
    /\ cursor \in 1..NumEntries
    /\ \/ br[cursor].st = "done"
       \/ br[cursor].st \in Awaiting /\ net[cursor] = "none"
    /\ cursor' = cursor + 1
    /\ UNCHANGED <<envVars, probeVars, diffVars, diff_rets,
                   parseVars, st_ret, pc, br, net, woken, diff_calls,
                   sum_calls, completion, files, run_err, calls,
                   faults>>

\* poll of a future whose await has an answer: summarize goes on
PollResponse ==
    /\ pc = "join"
    /\ cursor \in 1..NumEntries
    /\ br[cursor].st \in Awaiting
    /\ net[cursor] # "none"
    /\ LET k == cursor
           st == br[k].st
           r == net[k]
       IN  CASE st = "send" /\ r \in {"2xx", "non2xx"} ->
                    /\ br' = [br EXCEPT
                                ![k].st = IF r = "2xx" THEN "body"
                                          ELSE "errbody"]
                    /\ cursor' = k + 1
                    /\ UNCHANGED <<pc, run_err, completion, faults>>
             [] st = "body" /\ r = "text" ->
                    BranchDone(k, Some(Summary)) /\ UNCHANGED faults
             [] OTHER ->
                    /\ faults' = faults \cup {<<k, "summarize">>}
                    /\ BranchFail(k, "summarize")
    /\ net' = [net EXCEPT ![cursor] = "none"]
    /\ UNCHANGED <<envVars, probeVars, diffVars, diff_rets,
                   parseVars, st_ret, woken, diff_calls, sum_calls,
                   files, calls>>

\* the pass is over: Ready(Ok(outputs)) when every future is done, else
\* Pending until a waker is invoked
EndPass ==
    /\ pc = "join"
    /\ cursor = NumEntries + 1
    /\ cursor' = 0
    /\ IF \A i \in 1..NumEntries : br[i].st = "done"
       THEN files' = Some(JoinCollect(br, completion)) /\ pc' = "display"
       ELSE UNCHANGED <<files, pc>>
    /\ UNCHANGED <<envVars, probeVars, diffVars, diff_rets,
                   parseVars, st_ret, br, net, woken, diff_calls,
                   sum_calls, completion, run_err, calls,
                   faults>>

\* the executor polls the join again
Wake ==
    /\ pc = "join"
    /\ cursor = 0
    /\ woken
    /\ cursor' = 1
    /\ woken' = FALSE
    /\ UNCHANGED <<envVars, probeVars, diffVars, diff_rets,
                   parseVars, st_ret, pc, br, net, diff_calls,
                   sum_calls, completion, files, run_err, calls,
                   faults>>

Answers(st) ==
    CASE st = "send" -> {"2xx", "non2xx", "neterr"}
      [] st = "body" -> {"text", "notext", "neterr"}
      [] OTHER -> {"text", "neterr"}

\* the network answers an outstanding await of summarize
Respond ==
    /\ pc = "join"
    /\ \E i \in 1..NumEntries :
         /\ br[i].st \in Awaiting
         /\ net[i] = "none"
         /\ \E r \in Answers(br[i].st) : net' = [net EXCEPT ![i] = r]
    /\ woken' = TRUE
    /\ UNCHANGED <<envVars, probeVars, diffVars, diff_rets,
                   parseVars, st_ret, pc, br, cursor, diff_calls,
                   sum_calls, completion, files, run_err, calls,
                   faults>>

\* formatter.display_with_summaries(&files_with_summaries)?
Display ==
    /\ pc = "display"
    /\ calls' = [calls EXCEPT !.display = @ + 1]
    /\ \E ok \in BOOLEAN :
         IF ok THEN pc' = "done" /\ run_err' = run_err
         ELSE pc' = "exit_err" /\ run_err' = RunErr("display", 0)
    /\ UNCHANGED <<envVars, probeVars, diffVars,
                   parseVars, joinVars, st_ret, files,
                   faults>>

----------------------------------------------------------------------------
(* Specifications *)

RunIdle ==
    /\ br = <<>>
    /\ net = <<>>
    /\ cursor = 0
    /\ woken = FALSE
    /\ diff_calls = <<>>
    /\ diff_rets = <<>>
    /\ sum_calls = <<>>
    /\ completion = <<>>
    /\ files = NoneV
    /\ run_err = NoErr
    /\ faults = {}
    /\ calls = NoCalls

NotProbed == <<"NotRun">>
NoAnswer == DiffAnswer(FALSE, 0, <<>>)
NotDiffed == DiffRet("NotRun", <<>>, FALSE)

ProbeIdle == f_info = MissingFile /\ f_bin = NotProbed
DiffIdle == d_idx = 0 /\ d_ans = NoAnswer /\ d_ret = NotDiffed

RunChanges ==
    {Change("1", <<".", "M">>, <<"a">>, <<>>),
     Change("1", <<"D", ".">>, <<"R", SP, "a">>, <<>>),
     Change("?", <<>>, <<"a", SP, "b">>, <<>>),
     Change("u", <<"U", "U">>, <<"?", SP, "a">>, <<>>)}

RunOutputs ==
    {EmitAll(cs) : cs \in {x \in SeqsOf(RunChanges, 0, MaxEntries) :
                              DistinctPaths(x)}}

RunFileSystems ==
    {[p \in {AbsPath(q) : q \in StPaths} |-> k] : k \in {TextFile, BinaryFile}}
    \cup {[p \in {AbsPath(q) : q \in StPaths} |->
             IF p = AbsPath(<<"a">>) THEN BinaryFile ELSE TextFile]}

\* run, from the start of the process
Init ==
    /\ line = <<>>
    /\ parsed = NotParsed
    /\ api_key \in BOOLEAN
    /\ repo_ok \in BOOLEAN
    /\ st_exit \in {0, 1}
    /\ st_out \in RunOutputs
    /\ fs \in RunFileSystems
    /\ st_ret = NotReturned
    /\ pc = "check_key"
    /\ RunIdle
    /\ ProbeIdle
    /\ DiffIdle

Next ==
    \/ CheckApiKey
    \/ OpenRepo
    \/ RunGetStatus
    \/ NewSummarizer
    \/ CreateFutures
    \/ PollCreated
    \/ DiffReturn
    \/ PollPending
    \/ PollResponse
    \/ EndPass
    \/ Wake
    \/ Respond
    \/ Display

Spec == Init /\ [][Next]_vars

\* parse_status_line on one record
InitParse ==
    /\ line \in Lines
    /\ parsed = NotParsed
    /\ api_key = TRUE
    /\ repo_ok = TRUE
    /\ st_exit = 0
    /\ st_out = <<>>
    /\ fs = <<>>
    /\ st_ret = NotReturned
    /\ pc = "idle"
    /\ RunIdle
    /\ ProbeIdle
    /\ DiffIdle

ParseStatusLine ==
    /\ pc = "idle"
    /\ parsed.tag = "NotRun"
    /\ parsed' = parse_status_line(line)
    /\ UNCHANGED <<envVars, probeVars, diffVars,
                   joinVars, line, st_ret, pc, files, run_err, calls,
                   faults>>

NextParse == ParseStatusLine

SpecParse == InitParse /\ [][NextParse]_vars

\* get_status on one output of the status command
InitStatus ==
    /\ line = <<>>
    /\ parsed = NotParsed
    /\ api_key = TRUE
    /\ repo_ok = TRUE
    /\ st_exit \in {0, 1}
    /\ st_out \in StOutputs
    /\ fs \in FileSystems
    /\ st_ret = NotReturned
    /\ pc = "idle"
    /\ RunIdle
    /\ ProbeIdle
    /\ DiffIdle

\* mutant: the invocation takes away the files it was asked about
GetStatus_ConsumesFiles ==
    /\ pc = "idle"
    /\ st_ret.tag = "NotRun"
    /\ st_ret' = get_status(st_exit, st_out, fs)
    /\ fs' = [p \in DOMAIN fs |-> MissingFile]
    /\ UNCHANGED <<api_key, repo_ok, st_exit, st_out, probeVars, diffVars,
                   parseVars, joinVars, pc, files, run_err, calls,
                   faults>>

GetStatus ==
    /\ pc = "idle"
    /\ st_ret.tag = "NotRun"
    /\ st_ret' = get_status(st_exit, st_out, fs)
    /\ UNCHANGED <<envVars, probeVars, diffVars,
                   parseVars, joinVars, pc, files, run_err, calls,
                   faults>>

NextStatus == GetStatus

SpecStatus == InitStatus /\ [][NextStatus]_vars

\* is_file_binary on one file
ByteChars == {"x", LF, NUL, BAD}

Contents == SeqsOf(ByteChars, 0, MaxTextLen)

FileInfos ==
    {MissingFile}
    \cup {FileInfo(TRUE, pb, pe, rd, t) :
            pb \in BOOLEAN, pe \in BOOLEAN, rd \in BOOLEAN, t \in Contents}
    \cup {NoProbe(FileInfo(TRUE, FALSE, FALSE, TRUE, t)) : t \in Contents}

InitBinary ==
    /\ line = <<>>
    /\ parsed = NotParsed
    /\ api_key = TRUE
    /\ repo_ok = TRUE
    /\ st_exit = 0
    /\ st_out = <<>>
    /\ fs = <<>>
    /\ st_ret = NotReturned
    /\ pc = "idle"
    /\ RunIdle
    /\ f_info \in FileInfos
    /\ f_bin = NotProbed
    /\ DiffIdle

IsFileBinary ==
    /\ pc = "idle"
    /\ f_bin = NotProbed
    /\ f_bin' = is_file_binary(f_info)
    /\ UNCHANGED <<envVars, parseVars, joinVars, diffVars, f_info, st_ret, pc,
                   files, run_err, calls, faults>>

NextBinary == IsFileBinary

SpecBinary == InitBinary /\ [][NextBinary]_vars

\* get_status, then get_diff on one entry of the ChangeSet
DiffTexts == SeqsOf({"x", LF}, 0, MaxTextLen)

\* the text files as the probe reports them, and files that are no text
DiffFiles ==
    {IF Len(t) = 0 THEN EmptyFile ELSE FileInfo(TRUE, FALSE, FALSE, TRUE, t) :
        t \in DiffTexts}
    \cup {BinaryFile, MissingFile, UnreadableFile}

DiffChanges ==
    {Change("1", <<".", "M">>, <<"a">>, <<>>),
     Change("1", <<"A", ".">>, <<"a">>, <<>>),
     Change("1", <<"D", ".">>, <<"a", SP, "b">>, <<>>),
     Change("1", <<".", "D">>, <<"R", SP, "a">>, <<>>),
     Change("?", <<>>, <<"a", SP, "b">>, <<>>),
     Change("u", <<"U", "U">>, <<"?", SP, "a">>, <<>>),
     Change("2", <<"R", ".">>, <<"a">>, <<"R", SP, "a", SP, "b">>),
     Change("2", <<"C", ".">>, <<"a">>, <<"C", SP, "a", SP, "b">>)}

DiffOutputs ==
    {EmitAll(cs) : cs \in {x \in SeqsOf(DiffChanges, 1, MaxChanges) :
                              DistinctPaths(x)}}

DiffFileSystems ==
    {[p \in {AbsPath(q) : q \in StPaths \cup {<<"b">>}} |-> k] : k \in DiffFiles}

InitDiff ==
    /\ line = <<>>
    /\ parsed = NotParsed
    /\ api_key = TRUE
    /\ repo_ok = TRUE
    /\ st_exit = 0
    /\ st_out \in DiffOutputs
    /\ fs \in DiffFileSystems
    /\ st_ret = NotReturned
    /\ pc = "idle"
    /\ RunIdle
    /\ ProbeIdle
    /\ DiffIdle

GetDiff ==
    /\ pc = "idle"
    /\ st_ret.tag = "Ok"
    /\ d_idx = 0
    /\ \E k \in 1..NumEntries : \E ans \in DiffAnswers :
         /\ d_idx' = k
         /\ d_ans' = ans
         /\ d_ret' = get_diff(Entries[k], Lookup(fs, Entries[k].abs_path), ans)
    /\ UNCHANGED <<envVars, parseVars, joinVars, probeVars, st_ret, pc, files,
                   run_err, calls, faults>>

NextDiff ==
    \/ GetStatus
    \/ GetDiff

SpecDiff == InitDiff /\ [][NextDiff]_vars

----------------------------------------------------------------------------
(* Claims *)

\* a record read as the claims read it: the fields between single spaces,
\* the trailing field being everything from field k on
TrailingField(f, k) == join(SubSeq(f, k, Len(f)), <<SP>>)

\* "1" or "2", a two-character XY, 6 placeholder fields, a trailing path
IsOrdinary6(l) ==
    LET f == split(l, SP)
    IN  Len(f) >= 9 /\ f[1] \in {<<"1">>, <<"2">>} /\ Len(f[2]) = 2

KindOfLetter ==
    ("M" :> "Modified") @@ ("A" :> "Added") @@ ("D" :> "Deleted")
    @@ ("R" :> "Renamed") @@ ("C" :> "Copied") @@ ("U" :> "Unmerged")
    @@ ("?" :> "Untracked") @@ ("!" :> "Ignored")

Parsed == parsed.tag # "NotRun"
Returned == st_ret.tag # "NotRun"

\* C1: when every branch succeeds, the joined sequence has one element per
\* entry and element i carries the display_path of entry i, whatever the
\* order in which the branches completed
C1_OrderPreserved ==
    IsSome(files) =>
        /\ Len(Unwrap(files)) = NumEntries
        /\ \A i \in 1..NumEntries :
              Unwrap(files)[i].path = Entries[i].display_path

\* the join succeeded although the second branch completed before the first
C1_Witness ==
    /\ IsSome(files)
    /\ NumEntries = 2
    /\ completion = <<2, 1>>
    /\ Unwrap(files)[1].summary = Some(Summary)

\* C2: once a call of get_diff or summarize has returned an error, run has
\* returned the error of such a call, no sequence of FileWithSummary exists
\* and display_with_summaries was not called
C2_AllOrNothing ==
    faults # {} =>
        /\ pc = "exit_err"
        /\ <<run_err.branch, run_err.stage>> \in faults
        /\ files = NoneV
        /\ calls.display = 0

\* a summarize call failed after another branch had completed
C2_Witness ==
    /\ \E k \in 1..NumEntries : <<k, "summarize">> \in faults
    /\ \E j \in 1..NumEntries : br[j].st = "done"
    /\ pc = "exit_err"

\* C3: without the API key run fails before the repository is opened and
\* before the status command, a probe, a diff or a summarize call
C3_KeyBeforeWork ==
    ~api_key =>
        /\ calls = NoCalls
        /\ st_ret = NotReturned
        /\ br = <<>> /\ diff_calls = <<>> /\ sum_calls = <<>>
        /\ pc # "check_key" => pc = "exit_err" /\ run_err = RunErr("config", 0)

C3_Witness == ~api_key /\ pc = "exit_err" /\ repo_ok /\ st_exit = 0

StatusFragments == split(st_out, NUL)

\* parse_status_line returns an error on the fragment
FailsToParse(l) == Len(l) > 0 /\ parse_status_line(l).tag = "Err"

\* C4 as claimed: when the status command exits non-zero or a non-empty
\* fragment, at any position, fails to parse, get_status returns an error
\* and no entries
C4_NoPartialChangeSet ==
    (/\ Returned
     /\ \/ st_exit # 0
        \/ \E k \in 1..Len(StatusFragments) : FailsToParse(StatusFragments[k]))
    =>  /\ st_ret.tag = "Err"
        /\ st_ret.entries = <<>>

\* C5: an ordinary record with a two-character XY, 6 placeholder fields and
\* a path gives staged = (X # '.'), the kind of Y, or of X when Y is '.',
\* and the whole trailing field as display_path; a letter without a kind
\* gives an error
C5_OrdinaryRecord ==
    (Parsed /\ IsOrdinary6(line)) =>
        LET f == split(line, SP)
            x == f[2][1]
            y == f[2][2]
            letter == IF y = "." THEN x ELSE y
        IN  IF letter \in DOMAIN KindOfLetter
            THEN /\ parsed.tag = "Some"
                 /\ parsed.entry.staged = (x # ".")
                 /\ parsed.entry.status = KindOfLetter[letter]
                 /\ parsed.entry.display_path = TrailingField(f, 9)
            ELSE parsed.tag = "Err"

\* XY = "M.": the kind comes from X, the path holds a space
C5_Witness ==
    /\ line = OrdinaryLine("2", <<"M", ".">>, <<"a", SP, "a">>)
    /\ parsed.tag = "Some"
    /\ parsed.entry.status = "Modified"

C7_RenameRecord ==
    Parsed =>
        \A t \in {"R", "C"} :
        \A old \in NoSpacePaths \cup {OldTxt} :
        \A new \in NoSpacePaths \cup {NewTxt} :
            line = RenameLine(t, old, new) =>
                /\ parsed.tag = "Some"
                /\ parsed.entry.status = IF t = "R" THEN "Renamed" ELSE "Copied"
                /\ parsed.entry.staged
                /\ parsed.entry.display_path = new
                /\ parsed.entry.original_path = Some(old)

\* C8: a path, spaces included, that is the trailing field of an ordinary
\* record that parses, or of an untracked or unmerged record, is the
\* display_path, and abs_path ends in its final component
C8_PathRoundTrip ==
    Parsed =>
        LET f == split(line, SP)
            ok(p) == /\ parsed.entry.display_path = p
                     /\ IsSome(file_name(p)) =>
                           file_name(parsed.entry.abs_path) = file_name(p)
        IN  /\ (IsOrdinary6(line) /\ parsed.tag = "Some") =>
                  ok(TrailingField(f, 9))
            /\ (Len(f) >= 2 /\ f[1] \in {<<"?">>, <<"u">>}) =>
                  parsed.tag = "Some" /\ ok(TrailingField(f, 2))

\* an ordinary record whose path holds consecutive spaces
C8_Witness ==
    /\ line = OrdinaryLine("1", <<".", "M">>, <<"a", SP, SP>>)
    /\ parsed.tag = "Some"
    /\ parsed.entry.display_path = <<"a", SP, SP>>

\* C9 as claimed: no entry of a returned ChangeSet has kind Ignored
C9_NoIgnoredEntry ==
    st_ret.tag = "Ok" =>
        \A i \in 1..Len(st_ret.entries) : st_ret.entries[i].status # "Ignored"

IsRecord(l) == Len(l) > 0 /\ parse_status_line(l).tag = "Some"

\* C10 as claimed: the entries of a returned ChangeSet have pairwise
\* different display_paths and follow the order of the records
C10_UniqueInOrder ==
    st_ret.tag = "Ok" =>
        LET recs == SelectSeq(StatusFragments, IsRecord)
            es == st_ret.entries
        IN  /\ \A i \in 1..Len(es) : \A j \in 1..Len(es) :
                  i # j => es[i].display_path # es[j].display_path
            /\ Len(es) = Len(recs)
            /\ \A i \in 1..Len(es) :
                  es[i].display_path
                      = parse_status_line(recs[i]).entry.display_path

NotDeleted(e) == e.status # "Deleted"

\* C11: every Deleted entry of a returned ChangeSet has is_binary = false
\* and is_file_binary was called for the other entries only: the paths it
\* was handed are those of the entries that are not Deleted, in order
C11_DeletedNotProbed ==
    st_ret.tag = "Ok" =>
        LET es == st_ret.entries
            live == SelectSeq(es, NotDeleted)
        IN  /\ \A i \in 1..Len(es) :
                  es[i].status = "Deleted" => ~es[i].is_binary
            /\ st_ret.probed = [i \in 1..Len(live) |-> live[i].abs_path]

\* a Deleted entry whose path holds a binary file, beside a probed entry
C11_Witness ==
    /\ st_ret.tag = "Ok"
    /\ Len(st_ret.probed) = 1
    /\ \E i \in 1..Len(st_ret.entries) :
          /\ st_ret.entries[i].status = "Deleted"
          /\ is_file_binary(Lookup(fs, st_ret.entries[i].abs_path))
                = <<"Ok", TRUE>>

Probed == f_bin # NotProbed

HasNul(t) == \E i \in 1..Len(t) : t[i] = NUL

\* C12 as claimed: is_file_binary returns true for every existing file
\* whose content holds a NUL byte, whatever the probe prints (the probe
\* runs and the file can be read)
C12_NulIsBinary ==
    (/\ Probed
     /\ f_info.exists /\ f_info.probe_ran /\ f_info.readable
     /\ HasNul(f_info.text))
    => f_bin = <<"Ok", TRUE>>

\* C13 as claimed: is_file_binary returns false for every existing file
\* with empty content, whatever markers the probe prints (the probe runs
\* and the file can be read)
C13_EmptyIsText ==
    (/\ Probed
     /\ f_info.exists /\ f_info.probe_ran /\ f_info.readable
     /\ f_info.text = <<>>)
    => f_bin = <<"Ok", FALSE>>

FanOutStarted == Len(br) = NumEntries /\ st_ret.tag = "Ok" /\ pc # "create_futures"

\* C14: for an entry with is_binary = true, get_diff returns None, whatever
\* the kind of the entry, without running a command or reading the file;
\* in the fan-out no call of get_diff for it returns anything else,
\* summarize is not called for it, and in the joined sequence it stands at
\* its index without a summary
C14_BinarySkipped ==
    \A k \in 1..NumEntries :
        (FanOutStarted /\ Entries[k].is_binary) =>
            /\ \A kind \in StatusCodes : \A ans \in DiffAnswers :
                  get_diff([Entries[k] EXCEPT !.status = kind],
                           Lookup(fs, Entries[k].abs_path), ans)
                    = DiffRet("None", <<>>, FALSE)
            /\ \A c \in 1..Len(diff_rets[k]) :
                  diff_rets[k][c] = DiffRet("None", <<>>, FALSE)
            /\ sum_calls[k] = 0
            /\ IsSome(files) =>
                  /\ Unwrap(files)[k].path = Entries[k].display_path
                  /\ Unwrap(files)[k].summary = NoneV

\* the join succeeded with a binary entry before an entry with a summary
C14_Witness ==
    /\ IsSome(files)
    /\ NumEntries = 2
    /\ Entries[1].is_binary
    /\ Unwrap(files)[1].summary = NoneV
    /\ Unwrap(files)[2].summary = Some(Summary)

Diffed == d_idx # 0
DiffEntry == Entries[d_idx]
DiffFile == Lookup(fs, DiffEntry.abs_path)

\* the lines of a text: what stands between its line feeds, the text after
\* the last line feed counting when it is not empty
LinesOf(t) ==
    LET ps == split(t, LF)
    IN  IF Len(ps[Len(ps)]) = 0 THEN SubSeq(ps, 1, Len(ps) - 1) ELSE ps

\* C15 as claimed: for a non-binary Untracked entry whose file is there,
\* get_diff returns a diff with one line per line of the file (none for an
\* empty file), the k-th being '+' followed by the k-th line of the file
C15_UntrackedDiffLines ==
    (/\ Diffed
     /\ DiffEntry.status = "Untracked" /\ ~DiffEntry.is_binary
     /\ DiffFile.exists /\ DiffFile.readable)
    =>  /\ d_ret.tag = "Some"
        /\ LET fl == LinesOf(DiffFile.text)
           IN  LinesOf(d_ret.diff) = [k \in 1..Len(fl) |-> <<"+">> \o fl[k]]

\* C16: for a Deleted entry of a returned ChangeSet get_diff returns Some of
\* the text "This file was deleted" and runs no command and reads no file,
\* whatever the path holds, whether the deletion is staged, and whatever a
\* diff command would have answered
C16_DeletedSentinel ==
    (Diffed /\ DiffEntry.status = "Deleted") =>
        d_ret = DiffRet("Some", DeletedSentinel, FALSE)

\* an unstaged deletion whose path holds a binary file, where the diff
\* command would have failed
C16_Witness ==
    /\ Diffed
    /\ DiffEntry.status = "Deleted"
    /\ ~DiffEntry.staged
    /\ DiffFile.probe_binary
    /\ d_ans.exit # 0
    /\ d_ret.diff = DeletedSentinel

\* C17 as claimed: when get_diff ran the diff command and the command
\* exited non-zero, get_diff returns an error; it returns None only for a
\* binary entry and for a Renamed or Copied entry without original path
C17_NonZeroExitIsError ==
    Diffed =>
        /\ (d_ret.invoked /\ d_ans.spawned /\ d_ans.exit # 0) =>
              d_ret.tag = "Err"
        /\ d_ret.tag = "None" =>
              \/ DiffEntry.is_binary
              \/ /\ DiffEntry.status \in {"Renamed", "Copied"}
                 /\ DiffEntry.original_path = NoneV

\* get_diff returned Some(d) for entry k, with d empty or not
GotDiff(k, empty) ==
    \E c \in 1..Len(diff_rets[k]) :
        /\ diff_rets[k][c].tag = "Some"
        /\ (diff_rets[k][c].diff = <<>>) = empty

\* C18 as claimed: an entry whose diff is the empty string gets no summary
\* and no call of summarize; a summary is present only for a non-binary
\* entry with a non-empty diff
C18_EmptyDiffNoSummary ==
    FanOutStarted =>
        \A k \in 1..NumEntries :
            /\ GotDiff(k, TRUE) =>
                  /\ sum_calls[k] = 0
                  /\ br[k].out.summary = NoneV
            /\ br[k].out.summary # NoneV =>
                  ~Entries[k].is_binary /\ GotDiff(k, FALSE)

StartDiff(j) == cursor = j /\ PollCreated

\* C20 as claimed: the diff retrieval of a branch does not wait for the
\* diff retrieval of another branch to return: while get_diff of entry i is
\* in flight, get_diff of a non-binary entry j that has not started can
\* start, so that two retrievals are in flight together
C20_DiffsInFlightTogether ==
    \A i \in 1..Len(br) : \A j \in 1..Len(br) :
        (/\ pc = "join"
         /\ i # j
         /\ br[i].st = "diffing"
         /\ br[j].st = "created"
         /\ ~Entries[j].is_binary)
        => ENABLED StartDiff(j)

\* the status output of one staged rename of c.orig to c.path
IsRenameOutput(c) ==
    c.kind = "2" /\ c.xy = <<"R", ".">> /\ st_out = Emit(c)

\* the entry get_status is claimed to build for the rename c
IsRenameEntry(e, c) ==
    /\ e.status = "Renamed"
    /\ e.display_path = c.path
    /\ e.original_path = Some(c.orig)

\* C21 as claimed: for the status output of a staged rename of old to new
\* a get_status that returns a ChangeSet yields an entry with kind Renamed, display_path = new and
\* original_path = Some(old), and get_diff on that entry returns Some of
\* the rename diff when the diff command succeeds
C21_RenameEntryAndDiff ==
    \A c \in DiffChanges :
        (IsRenameOutput(c) /\ st_ret.tag = "Ok") =>
            /\ \E k \in 1..NumEntries : IsRenameEntry(Entries[k], c)
            /\ (/\ Diffed
                /\ IsRenameEntry(DiffEntry, c)
                /\ d_ans.spawned /\ d_ans.exit = 0)
               => d_ret.tag = "Some"

\* the status output of one merge conflict in c.path
IsConflictOutput(c) == c.kind = "u" /\ st_out = Emit(c)

\* C22 as claimed: for the status output of a merge conflict in file p a
\* get_status that returns a ChangeSet yields an entry with kind Unmerged
\* whose abs_path has p as its final component
C22_UnmergedFileName ==
    \A c \in StChanges :
        (IsConflictOutput(c) /\ st_ret.tag = "Ok") =>
            \E k \in 1..NumEntries :
                /\ Entries[k].status = "Unmerged"
                /\ file_name(Entries[k].abs_path) = file_name(c.path)

C24_NeverPanics ==
    (Parsed /\ Len(line) > 0) => parsed.tag \in {"Some", "None", "Err"}

\* a fragment that opens a "2" rename record: the fragment after it carries
\* the original path only
IsRenameFragment(l) == Len(l) >= 2 /\ SubSeq(l, 1, 2) = <<"2", SP>>

\* a fragment that is an ignored-file record
IsIgnoredFragment(l) == Len(l) >= 2 /\ SubSeq(l, 1, 2) = <<"!", SP>>

RECURSIVE StatusRecords(_)

\* the number of non-ignored status records in a list of fragments, the
\* fragment after a "2" record belonging to that record
StatusRecords(frags) ==
    IF Len(frags) = 0 THEN 0
    ELSE IF Len(Head(frags)) = 0 \/ IsIgnoredFragment(Head(frags))
    THEN StatusRecords(Tail(frags))
    ELSE IF IsRenameFragment(Head(frags)) /\ Len(frags) >= 2
    THEN 1 + StatusRecords(Tail(Tail(frags)))
    ELSE 1 + StatusRecords(Tail(frags))

\* C25 as claimed: the fragment that carries the original path of a "2"
\* rename record never produces an entry of its own, whatever the original
\* path: a returned ChangeSet has as many entries as the status output has
\* non-ignored records
C25_OneEntryPerRecord ==
    st_ret.tag = "Ok" => NumEntries = StatusRecords(StatusFragments)

====
